---- MODULE Spec2Model ----
(***************************************************************************)
(* Model of the asynchronous job queue of the PDF processing backend:      *)
(* the producer (upload_document / RedisService.add_job_to_queue), the     *)
(* Redis keyspace and stream with its consumer group, and the worker loop  *)
(* (Worker.run / Worker.process_message) and the status request            *)
(* (get_job_status).  Every Redis command is one                           *)
(* atomic step; the Python code between two commands belongs to the step   *)
(* of the command that follows it.                                         *)
(***************************************************************************)
EXTENDS Integers, Sequences, FiniteSets, TLC

\* ---------------------------------------------------------------- bounds
MaxJobs == 1        \* number of upload requests (one uuid4 job id each)
NumWorkers == 2     \* worker processes sharing the consumer group
MaxPolls == 2       \* polls of the status store one status request may make
MaxReadFails == 2   \* failed reads in a row one worker is followed through
MaxQueued == 2      \* upload requests where the order of the entries is looked at

Jobs == 1..MaxJobs
\* every job id some specification lets a request draw
AllJobs == Jobs \cup 1..MaxQueued
Workers == 1..NumWorkers

\* Optional[T]: None is the empty sequence, a present value v is <<v>>.
None == <<>>
Some(v) == <<v>>

\* ------------------------------------------------------- program constants
TTL == 3600
timeout == 300
poll_interval == 2
MaxUpload == 10 * 1024 * 1024
ConsumerName == "worker_1"
Parsers == {"pypdf", "gemini"}
Filenames == {"a.pdf"}
\* the file names and payload lengths an upload request may carry
UploadNames == {"", "notes.txt", "a.pdf", "B.PDF"}
UploadSizes == {0, 1, MaxUpload, MaxUpload + 1}

PENDING == "pending"
PROCESSING == "processing"
COMPLETED == "completed"
FAILED == "failed"

ErrPdfNotFound == "PDF data not found in Redis"
ErrRedis == "redis.exceptions.ConnectionError"
ErrPyPdf == "PyPDF extraction failed"
ErrSummary == "Summary generation failed"
ErrGemini == "gemini request failed"
TimeoutMsg == "Processing timed out after 3 attempts. The PDF may be too large or complex."

VARIABLES
    kv,       \* the Redis keyspace: key -> [value, ex]
    stream,   \* the stream pdf_processing_queue: sequence of entries, the id of an entry is its index
    group,    \* the consumer group pdf_processors: [last_delivered, pel]
    prod,     \* one upload request per job id: position in upload_document and its locals
    wk,       \* one record per worker process: position in run/process_message and its locals
    writes,   \* history: per job, the statuses written by save_result, in order
    recv,     \* history: per entry id, the workers whose read returned the entry, in order
    calls,    \* history: per job, [extract, missing, failed]: process_document calls, payload
              \*          found absent, calls in which an extractor call failed or timed out
    escaped,  \* history: ids of the entries whose process_message call ended by an exception
    qry,      \* one status request: position in get_job_status, its locals and its answer
    acks,     \* history: per entry id, the XACK commands the server has executed for it
    boot,     \* history: the latest RedisService construction: [reply, at, outcome]
    readfail, \* history: per worker, failed reads since its last sleep or successful read
    lost      \* history: ids of the entries a worker held, with no terminal write made, when
              \*          its process was killed

vars == <<kv, stream, group, prod, wk, writes, recv, calls, escaped, qry, acks, boot, readfail,
          lost>>

\* datetime.now(timezone.utc).isoformat() / datetime.utcnow().isoformat(): the instant is
\* named by the place that reads the clock and the job it reads it for; two reads differ
Instant(site, job_id) == <<site, job_id>>

\* ------------------------------------------------------------- keys, store
PdfKey(job_id) == <<"pdf", job_id>>
ResultKey(job_id) == <<"result", job_id>>
PdfBytes(job_id) == <<"bytes", job_id>>

\* redis SET key value ex=TTL
Put(store, k, v) ==
    [x \in (DOMAIN store) \cup {k} |-> IF x = k THEN [value |-> v, ex |-> TTL] ELSE store[x]]

\* a key leaves the keyspace (expiry or DEL)
Drop(store, k) == [x \in (DOMAIN store) \ {k} |-> store[x]]

\* ------------------------------------------------------- ProcessingResult
OptFields == {"content", "summary", "error", "completed_at"}
ReqFields == {"job_id", "filename", "parser", "status", "created_at"}

\* result.dict(exclude_none=True) serialised: the None fields are left out
Dump(r) == [f \in ReqFields \cup {g \in OptFields : r[g] # None} |->
               IF f \in ReqFields THEN r[f] ELSE r[f][1]]

\* ProcessingResult(**json.loads(data)): the absent optional fields default to None
Load(d) == [f \in ReqFields \cup OptFields |->
               IF f \in ReqFields THEN d[f]
               ELSE IF f \in DOMAIN d THEN Some(d[f]) ELSE None]

\* save_result with the wrong key: the record is written under the payload key of the job
save_result_Mut(store, r) == Put(store, PdfKey(r.job_id), Dump(r))

\* client.set(f"result:{result.job_id}", result.model_dump_json(exclude_none=True), ex=3600)
save_result(store, r) == Put(store, ResultKey(r.job_id), Dump(r))

get_result(store, job_id) ==
    IF ResultKey(job_id) \in DOMAIN store
    THEN Some(Load(store[ResultKey(job_id)].value))
    ELSE None

get_pdf_data(store, pdf_key) ==
    IF pdf_key \in DOMAIN store THEN Some(store[pdf_key].value) ELSE None

\* add_job_to_queue initialising the record in the wrong state
PendingResult_Mut(job_id, filename, parser, t) ==
    [job_id |-> job_id, filename |-> filename, parser |-> parser, status |-> PROCESSING,
     content |-> None, summary |-> None, error |-> None,
     created_at |-> t, completed_at |-> None]

\* the record add_job_to_queue creates
PendingResult(job_id, filename, parser, t) ==
    [job_id |-> job_id, filename |-> filename, parser |-> parser, status |-> PENDING,
     content |-> None, summary |-> None, error |-> None,
     created_at |-> t, completed_at |-> None]

\* the record process_message builds after a successful extraction
CompletedResult(job_id, filename, parser, content, summary, created, done) ==
    [job_id |-> job_id, filename |-> filename, parser |-> parser, status |-> COMPLETED,
     content |-> content, summary |-> summary, error |-> None,
     created_at |-> created, completed_at |-> Some(done)]

\* ---------------------------------------------------------------- stream
\* a read that hands out the newest entry instead of the oldest never-delivered one
NextUndelivered_Mut == IF group.last_delivered < Len(stream) THEN Len(stream) ELSE 0

\* XREADGROUP ... streams={stream: '>'} count=1: the first never-delivered entry, if any
NextUndelivered == IF group.last_delivered < Len(stream) THEN group.last_delivered + 1 ELSE 0

\* an XACK that is not idempotent: acknowledging an id that is not pending makes it pending again
XAck_Mut(g, id) ==
    IF id \in DOMAIN g.pel
    THEN [g EXCEPT !.pel = [x \in (DOMAIN g.pel) \ {id} |-> g.pel[x]]]
    ELSE [g EXCEPT !.pel = [x \in (DOMAIN g.pel) \cup {id} |-> IF x = id THEN "" ELSE g.pel[x]]]

\* XACK: the id leaves the group's pending entries list; unknown ids are ignored
XAck(g, id) == [g EXCEPT !.pel = [x \in (DOMAIN g.pel) \ {id} |-> g.pel[x]]]

\* XREADGROUP delivers id to consumer c: the group's position advances, the id enters the PEL
XDeliver(g, id, c) ==
    [last_delivered |-> id,
     pel |-> [x \in (DOMAIN g.pel) \cup {id} |-> IF x = id THEN c ELSE g.pel[x]]]

\* the replies XGROUP CREATE may get: BUSYGROUP from a server that has the group, another
\* ResponseError, or no reply at all
CreateReplies ==
    {[type |-> "ResponseError", text |-> "BUSYGROUP Consumer Group name already exists"],
     [type |-> "ResponseError", text |-> "ERR the server refuses the command"],
     [type |-> "ConnectionError", text |-> "Error connecting to redis"]}

\* "BUSYGROUP" in str(e)
HasBusyGroup(text) == text = "BUSYGROUP Consumer Group name already exists"

\* XGROUP CREATE stream group 0 MKSTREAM on a server that has the group: nothing changes
XGroupCreate(g) == g

\* _initialize_stream recreating the group: BUSYGROUP is answered by creating the group afresh at id 0
initialize_stream_Mut(g, reply) ==
    IF reply.type = "ResponseError" /\ HasBusyGroup(reply.text)
    THEN [group |-> [last_delivered |-> 0, pel |-> <<>>], raised |-> None]
    ELSE [group |-> IF reply.type = "ResponseError" THEN XGroupCreate(g) ELSE g,
          raised |-> Some(reply)]

\* RedisService._initialize_stream: the group afterwards and the exception it raises, if any
initialize_stream(g, reply) ==
    [group |-> IF reply.type = "ResponseError" THEN XGroupCreate(g) ELSE g,
     raised |-> IF reply.type = "ResponseError" /\ HasBusyGroup(reply.text)
                THEN None ELSE Some(reply)]

\* ------------------------------------------------------------- extraction
\* outcomes of one remote/library call inside the extractor
CallOutcomes(parser) == IF parser = "gemini" THEN {"ok", "timeout", "error"} ELSE {"ok", "error"}

\* process_with_gemini: a timeout on every attempt is returned as text, other errors propagate
process_with_gemini(o, text) ==
    IF o = "ok" THEN [raised |-> FALSE, val |-> text]
    ELSE IF o = "timeout" THEN [raised |-> FALSE, val |-> TimeoutMsg]
    ELSE [raised |-> TRUE, val |-> ErrGemini]

\* process_document(pdf_data, parser, filename) under call outcomes o1 (content), o2 (summary)
process_document(parser, o1, o2) ==
    IF parser = "pypdf"
    THEN IF o1 # "ok" THEN [raised |-> TRUE, content |-> None, summary |-> None, error |-> ErrPyPdf]
         ELSE IF o2 # "ok" THEN [raised |-> TRUE, content |-> None, summary |-> None, error |-> ErrSummary]
         ELSE [raised |-> FALSE, content |-> Some("text"), summary |-> Some("summary"), error |-> ""]
    ELSE LET c == process_with_gemini(o1, "text")
             s == process_with_gemini(o2, "summary")
         IN  IF c.raised THEN [raised |-> TRUE, content |-> None, summary |-> None, error |-> c.val]
             ELSE IF s.raised THEN [raised |-> TRUE, content |-> None, summary |-> None, error |-> s.val]
             ELSE [raised |-> FALSE, content |-> Some(c.val), summary |-> Some(s.val), error |-> ""]

\* ------------------------------------------------------------------- Init
NoLocals == [message_id |-> 0, data |-> None, result |-> None, pdf_data |-> None,
             content |-> None, summary |-> None, e |-> None]

WorkerInit == [pc |-> "init", running |-> FALSE] @@ NoLocals

\* no status request has arrived yet
QueryInit == [pc |-> "idle", job_id |-> "", elapsed |-> 0, polls |-> 0, result |-> None,
              observed |-> FALSE, commands |-> 0, answer |-> None]

Init ==
    /\ kv = <<>>
    /\ stream = <<>>
    /\ group = [last_delivered |-> 0, pel |-> <<>>]
    /\ prod = [j \in AllJobs |-> [pc |-> "idle", filename |-> "", size |-> 0, parser |-> "",
                                message_id |-> 0, commands |-> 0]]
    /\ wk = [w \in Workers |-> WorkerInit]
    /\ writes = [j \in AllJobs |-> <<>>]
    /\ recv = [i \in AllJobs |-> <<>>]
    /\ calls = [j \in AllJobs |-> [extract |-> 0, missing |-> 0, failed |-> 0]]
    /\ escaped = {}
    /\ qry = QueryInit
    /\ acks = [i \in AllJobs |-> 0]
    /\ boot = [reply |-> None, at |-> 0, outcome |-> "ready"]
    /\ readfail = [w \in Workers |-> 0]
    /\ lost = {}

\* --------------------------------------------------------------- helpers
Log(j, status) == [writes EXCEPT ![j] = Append(@, status)]

JobOf(w) == wk[w].data[1].job_id

\* process_message has returned or raised: its locals are gone
Leave(w, pc) == [wk EXCEPT ![w] = [pc |-> pc, running |-> wk[w].running] @@ NoLocals]

\* the ids of the stream entries that carry job j
EntriesOf(j) == {i \in 1..Len(stream) : stream[i].job_id = j}

\* job j is settled: its request has been answered and nothing is left to do for its entry
Settled(j) ==
    /\ prod[j].pc \in {"accepted", "error"}
    /\ \A i \in EntriesOf(j) : /\ i <= group.last_delivered
                               /\ \A w \in Workers : wk[w].message_id # i

\* ------------------------------------------------- producer: upload_document
\* file.filename.lower()
Lower(fn) == IF fn = "B.PDF" THEN "b.pdf" ELSE fn

\* .endswith('.pdf')
EndsWithPdf(fn) == fn \in {"a.pdf", "b.pdf"}

\* the checks of upload_document without the one on emptiness: the empty payload is let through
Validate_Mut(fn, n) ==
    IF fn = "" THEN Some("No file provided")
    ELSE IF ~EndsWithPdf(Lower(fn)) THEN Some("Only PDF files are allowed")
    ELSE IF n > MaxUpload THEN Some("File size must be less than 10MB")
    ELSE None

\* the checks of upload_document on the file name and on len(content):
\* the detail of the HTTP 400 raised, None when the request passes
Validate(fn, n) ==
    IF fn = "" THEN Some("No file provided")
    ELSE IF ~EndsWithPdf(Lower(fn)) THEN Some("Only PDF files are allowed")
    ELSE IF n = 0 THEN Some("Empty file uploaded")
    ELSE IF n > MaxUpload THEN Some("File size must be less than 10MB")
    ELSE None

\* the request arrives with file name fn and n bytes; when validation passes
\* job_id = uuid4(); requests are numbered in arrival order
P_Upload(j, fn, n, p) ==
    /\ prod[j].pc = "idle"
    /\ \A i \in 1..(j - 1) : prod[i].pc # "idle"
    /\ prod' = [prod EXCEPT ![j] = [@ EXCEPT !.filename = fn, !.size = n, !.parser = p,
                       !.pc = IF Validate(fn, n) = None THEN "set_pdf" ELSE "rejected"]]
    /\ UNCHANGED <<kv, stream, group, wk, writes, recv, calls, escaped, qry, acks, boot, readfail, lost>>

\* add_job_to_queue: binary_client.set(pdf_key, pdf_data, ex=3600)
P_SetPdf(j) ==
    /\ prod[j].pc = "set_pdf"
    /\ kv' = Put(kv, PdfKey(j), PdfBytes(j))
    /\ prod' = [prod EXCEPT ![j] = [@ EXCEPT !.pc = "xadd", !.commands = @ + 1]]
    /\ UNCHANGED <<stream, group, wk, writes, recv, calls, escaped, qry, acks, boot, readfail, lost>>

\* add_job_to_queue: message_id = client.xadd(stream_name, {...})
P_XAdd(j) ==
    /\ prod[j].pc = "xadd"
    /\ stream' = Append(stream, [job_id |-> j, filename |-> prod[j].filename,
                                 parser |-> prod[j].parser, pdf_key |-> PdfKey(j),
                                 timestamp |-> Instant("enqueued", j)])
    /\ prod' = [prod EXCEPT ![j] = [@ EXCEPT !.pc = "save", !.message_id = Len(stream) + 1,
                                              !.commands = @ + 1]]
    /\ UNCHANGED <<kv, group, wk, writes, recv, calls, escaped, qry, acks, boot, readfail, lost>>

\* add_job_to_queue: save_result(PENDING record); return message_id; upload_document returns job_id
P_SaveResult(j) ==
    /\ prod[j].pc = "save"
    /\ kv' = save_result(kv, PendingResult(j, prod[j].filename, prod[j].parser, Instant("created", j)))
    /\ writes' = Log(j, PENDING)
    /\ prod' = [prod EXCEPT ![j] = [@ EXCEPT !.commands = @ + 1,
                       !.pc = IF prod[j].message_id # 0 THEN "accepted" ELSE "error"]]
    /\ UNCHANGED <<stream, group, wk, recv, calls, escaped, qry, acks, boot, readfail, lost>>

\* a Redis command of add_job_to_queue raises: upload_document answers 500, no job_id
P_Fault(j) ==
    /\ prod[j].pc \in {"set_pdf", "xadd", "save"}
    /\ prod' = [prod EXCEPT ![j] = [@ EXCEPT !.pc = "error", !.commands = @ + 1]]
    /\ UNCHANGED <<kv, stream, group, wk, writes, recv, calls, escaped, qry, acks, boot, readfail, lost>>

\* ------------------------------------------------------------ Worker.run
W_Run(w) ==
    /\ wk[w].pc = "init"
    /\ wk' = [wk EXCEPT ![w] = [@ EXCEPT !.pc = "loop", !.running = TRUE]]
    /\ UNCHANGED <<kv, stream, group, prod, writes, recv, calls, escaped, qry, acks, boot, readfail, lost>>

\* SIGINT/SIGTERM delivered once the handlers are installed
HandleShutdown(w) ==
    /\ wk[w].pc \notin {"init", "exited"}
    /\ wk[w].running
    /\ wk' = [wk EXCEPT ![w].running = FALSE]
    /\ UNCHANGED <<kv, stream, group, prod, writes, recv, calls, escaped, qry, acks, boot, readfail, lost>>

\* while self.running: left with the flag down
W_Exit(w) ==
    /\ wk[w].pc = "loop"
    /\ ~wk[w].running
    /\ wk' = [wk EXCEPT ![w].pc = "exited"]
    /\ UNCHANGED <<kv, stream, group, prod, writes, recv, calls, escaped, qry, acks, boot, readfail, lost>>

\* while self.running: messages = read_from_stream(count=1, block=5000) returns an entry.
\* An empty answer (nothing undelivered within the block time) leads back to the loop
\* head with no change of state; W_ReadFault is the read that raises.
W_Read(w) ==
    /\ wk[w].pc = "loop"
    /\ wk[w].running
    /\ NextUndelivered # 0
    /\ LET id == NextUndelivered IN
       /\ group' = XDeliver(group, id, ConsumerName)
       /\ recv' = [recv EXCEPT ![id] = Append(@, w)]
       /\ wk' = [wk EXCEPT ![w] = [@ EXCEPT !.pc = "get1", !.message_id = id,
                                             !.data = Some(stream[id])]]
    /\ readfail' = [readfail EXCEPT ![w] = 0]
    /\ UNCHANGED <<kv, stream, prod, writes, calls, escaped, qry, acks, boot, lost>>

\* await asyncio.sleep(1) in the except branch of the loop
W_Sleep(w) ==
    /\ wk[w].pc = "sleep"
    /\ wk' = [wk EXCEPT ![w].pc = "loop"]
    /\ readfail' = [readfail EXCEPT ![w] = 0]
    /\ UNCHANGED <<kv, stream, group, prod, writes, recv, calls, escaped, qry, acks, boot, lost>>

\* ---------------------------------------------- Worker.process_message: try
\* result = self.redis.get_result(job_id)
W_GetResult(w) ==
    /\ wk[w].pc = "get1"
    /\ LET r == get_result(kv, JobOf(w)) IN
       wk' = [wk EXCEPT ![w] = [@ EXCEPT !.result = r,
                                         !.pc = IF r # None THEN "save1" ELSE "getpdf"]]
    /\ UNCHANGED <<kv, stream, group, prod, writes, recv, calls, escaped, qry, acks, boot, readfail, lost>>

\* result.status = PROCESSING; save_result(result)
W_SaveProcessing(w) ==
    /\ wk[w].pc = "save1"
    /\ LET r == [wk[w].result[1] EXCEPT !.status = PROCESSING] IN
       /\ kv' = save_result(kv, r)
       /\ writes' = Log(r.job_id, r.status)
       /\ wk' = [wk EXCEPT ![w] = [@ EXCEPT !.result = Some(r), !.pc = "getpdf"]]
    /\ UNCHANGED <<stream, group, prod, recv, calls, escaped, qry, acks, boot, readfail, lost>>

\* pdf_data = get_pdf_data(pdf_key); if not pdf_data: raise Exception(...)
W_GetPdf(w) ==
    /\ wk[w].pc = "getpdf"
    /\ LET d == get_pdf_data(kv, wk[w].data[1].pdf_key) IN
       IF d = None
       THEN /\ wk' = [wk EXCEPT ![w] = [@ EXCEPT !.e = Some(ErrPdfNotFound), !.pc = "h_get"]]
            /\ calls' = [calls EXCEPT ![JobOf(w)].missing = @ + 1]
       ELSE /\ wk' = [wk EXCEPT ![w] = [@ EXCEPT !.pdf_data = d, !.pc = "extract"]]
            /\ UNCHANGED calls
    /\ UNCHANGED <<kv, stream, group, prod, writes, recv, escaped, qry, acks, boot, readfail, lost>>

\* content, summary = pdf_processor.process_document(pdf_data, parser, filename)
W_Extract(w, o1, o2) ==
    /\ wk[w].pc = "extract"
    /\ {o1, o2} \subseteq CallOutcomes(wk[w].data[1].parser)
    /\ LET x == process_document(wk[w].data[1].parser, o1, o2) IN
       wk' = [wk EXCEPT ![w] =
                IF x.raised
                THEN [@ EXCEPT !.e = Some(x.error), !.pc = "h_get"]
                ELSE [@ EXCEPT !.content = x.content, !.summary = x.summary, !.pc = "save2"]]
    /\ calls' = [calls EXCEPT ![JobOf(w)] =
                    [@ EXCEPT !.extract = @ + 1,
                              !.failed = IF {o1, o2} = {"ok"} THEN @ ELSE @ + 1]]
    /\ UNCHANGED <<kv, stream, group, prod, writes, recv, escaped, qry, acks, boot, readfail, lost>>

\* result = ProcessingResult(status=COMPLETED, ...); save_result(result)
W_SaveCompleted(w) ==
    /\ wk[w].pc = "save2"
    /\ LET old == wk[w].result
           d == wk[w].data[1]
           created == IF old # None THEN old[1].created_at ELSE Instant("started", d.job_id)
           done == Instant("completed", d.job_id)
           r == CompletedResult(d.job_id, d.filename, d.parser,
                                wk[w].content, wk[w].summary, created, done)
       IN  /\ kv' = save_result(kv, r)
           /\ writes' = Log(r.job_id, r.status)
           /\ wk' = [wk EXCEPT ![w] = [@ EXCEPT !.result = Some(r), !.pc = "ack1"]]
    /\ UNCHANGED <<stream, group, prod, recv, calls, escaped, qry, acks, boot, readfail, lost>>

\* acknowledge_message(message_id), then process_message returns
W_Ack(w) ==
    /\ wk[w].pc = "ack1"
    /\ group' = XAck(group, wk[w].message_id)
    /\ acks' = [acks EXCEPT ![wk[w].message_id] = @ + 1]
    /\ wk' = Leave(w, "loop")
    /\ UNCHANGED <<kv, stream, prod, writes, recv, calls, escaped, qry, boot, readfail, lost>>

\* ------------------------------------ Worker.process_message: except Exception
\* result = self.redis.get_result(job_id)
W_HGetResult(w) ==
    /\ wk[w].pc = "h_get"
    /\ LET r == get_result(kv, JobOf(w)) IN
       wk' = [wk EXCEPT ![w] = [@ EXCEPT !.result = r,
                                         !.pc = IF r # None THEN "h_save" ELSE "h_ack"]]
    /\ UNCHANGED <<kv, stream, group, prod, writes, recv, calls, escaped, qry, acks, boot, readfail, lost>>

\* result.status = FAILED; result.error = str(e); result.completed_at = now; save_result(result)
W_SaveFailed(w) ==
    /\ wk[w].pc = "h_save"
    /\ LET r == [wk[w].result[1] EXCEPT !.status = FAILED, !.error = wk[w].e,
                                        !.completed_at = Some(Instant("failed", JobOf(w)))] IN
       /\ kv' = save_result(kv, r)
       /\ writes' = Log(r.job_id, r.status)
       /\ wk' = [wk EXCEPT ![w] = [@ EXCEPT !.result = Some(r), !.pc = "h_ack"]]
    /\ UNCHANGED <<stream, group, prod, recv, calls, escaped, qry, acks, boot, readfail, lost>>

\* the except block returning without the acknowledgment
W_HAck_Mut(w) ==
    /\ wk[w].pc = "h_ack"
    /\ wk' = Leave(w, "loop")
    /\ UNCHANGED <<kv, stream, group, prod, writes, recv, calls, escaped, qry, acks, boot, readfail, lost>>

\* acknowledge_message(message_id) "anyway", then process_message returns
W_HAck(w) ==
    /\ wk[w].pc = "h_ack"
    /\ group' = XAck(group, wk[w].message_id)
    /\ acks' = [acks EXCEPT ![wk[w].message_id] = @ + 1]
    /\ wk' = Leave(w, "loop")
    /\ UNCHANGED <<kv, stream, prod, writes, recv, calls, escaped, qry, boot, readfail, lost>>

\* ----------------------------------------------------------- environment
\* run() without its except branch: an error leaving process_message is not caught and ends the worker
W_Fault_Mut(w) ==
    /\ wk[w].pc \in {"get1", "save1", "getpdf", "save2", "ack1", "h_get", "h_save", "h_ack"}
    /\ IF wk[w].pc \in {"h_get", "h_save", "h_ack"}
       THEN /\ wk' = Leave(w, "exited")
            /\ escaped' = escaped \cup {wk[w].message_id}
       ELSE /\ wk' = [wk EXCEPT ![w] = [@ EXCEPT !.e = Some(ErrRedis), !.pc = "h_get"]]
            /\ UNCHANGED escaped
    /\ UNCHANGED <<kv, stream, group, prod, writes, recv, calls, qry, acks, boot, readfail, lost>>

\* the Redis command the worker is about to issue raises instead:
\*   in the try block control passes to the except block with e set;
\*   in the except block the error leaves process_message and run() catches it
W_Fault(w) ==
    /\ wk[w].pc \in {"get1", "save1", "getpdf", "save2", "ack1", "h_get", "h_save", "h_ack"}
    /\ IF wk[w].pc \in {"h_get", "h_save", "h_ack"}
       THEN /\ wk' = Leave(w, "sleep")
            /\ escaped' = escaped \cup {wk[w].message_id}
       ELSE /\ wk' = [wk EXCEPT ![w] = [@ EXCEPT !.e = Some(ErrRedis), !.pc = "h_get"]]
            /\ UNCHANGED escaped
    /\ UNCHANGED <<kv, stream, group, prod, writes, recv, calls, qry, acks, boot, readfail, lost>>

\* while self.running: xreadgroup raises; read_from_stream prints the error and returns [],
\* so run() sees an empty answer and is back at the loop head
W_ReadFault(w) ==
    /\ wk[w].pc = "loop"
    /\ wk[w].running
    /\ readfail[w] < MaxReadFails
    /\ readfail' = [readfail EXCEPT ![w] = @ + 1]
    /\ UNCHANGED <<kv, stream, group, prod, wk, writes, recv, calls, escaped, qry, acks, boot, lost>>

\* acknowledge_message in the try block: the server executes XACK but the reply does not
\* arrive, the client raises and control passes to the except block
W_AckLost(w) ==
    /\ wk[w].pc = "ack1"
    /\ group' = XAck(group, wk[w].message_id)
    /\ acks' = [acks EXCEPT ![wk[w].message_id] = @ + 1]
    /\ wk' = [wk EXCEPT ![w] = [@ EXCEPT !.e = Some(ErrRedis), !.pc = "h_get"]]
    /\ UNCHANGED <<kv, stream, prod, writes, recv, calls, escaped, qry, boot, readfail, lost>>

\* one more process imports services.py: RedisService() runs _initialize_stream against
\* the server, which answers with reply
Construct(reply) ==
    /\ LET r == initialize_stream(group, reply) IN
       /\ group' = r.group
       /\ boot' = [reply |-> Some(reply), at |-> group.last_delivered,
                   outcome |-> IF r.raised = None THEN "ready" ELSE "raised"]
    /\ UNCHANGED <<kv, stream, prod, wk, writes, recv, calls, escaped, qry, acks, readfail, lost>>

\* the worker process is killed (SIGKILL, power loss) wherever it is
W_Crash(w) ==
    /\ wk[w].pc \notin {"init", "exited", "crashed"}
    /\ wk' = Leave(w, "crashed")
    /\ lost' = IF wk[w].message_id # 0
                  /\ \A k \in DOMAIN writes[JobOf(w)] : writes[JobOf(w)][k] \notin {COMPLETED, FAILED}
               THEN lost \cup {wk[w].message_id} ELSE lost
    /\ UNCHANGED <<kv, stream, group, prod, writes, recv, calls, escaped, qry, acks, boot, readfail>>

\* a restart that sets the group up afresh, as XGROUP DESTROY and CREATE at id 0 would
W_Restart_Mut(w) ==
    /\ wk[w].pc = "crashed"
    /\ group' = [last_delivered |-> 0, pel |-> <<>>]
    /\ wk' = [wk EXCEPT ![w] = WorkerInit]
    /\ UNCHANGED <<kv, stream, prod, writes, recv, calls, escaped, qry, acks, boot, readfail, lost>>

\* the worker is started again: a new process imports services.py, whose RedisService()
\* finds the group (BUSYGROUP), and constructs Worker()
W_Restart(w) ==
    /\ wk[w].pc = "crashed"
    /\ group' = initialize_stream(group, [type |-> "ResponseError",
                     text |-> "BUSYGROUP Consumer Group name already exists"]).group
    /\ wk' = [wk EXCEPT ![w] = WorkerInit]
    /\ UNCHANGED <<kv, stream, prod, writes, recv, calls, escaped, qry, acks, boot, readfail, lost>>

\* a key reaches its time-to-live or is deleted
Expire(k) ==
    /\ k \in DOMAIN kv
    /\ kv' = Drop(kv, k)
    /\ UNCHANGED <<stream, group, prod, wk, writes, recv, calls, escaped, qry, acks, boot, readfail, lost>>

\* ------------------------------------------------ GET /status: get_job_status
\* str(uuid.uuid4()) of the n-th upload; UuidText(0) is a UUID no upload was given
UuidText(n) == "uuid-" \o ToString(n)

\* the job_id path parameters a client may send: empty, blank, not a UUID, a UUID in a
\* spelling uuid.UUID accepts but str(uuid4()) never produces, and canonical UUIDs
JobIdTexts == {"", "   ", "not-a-uuid", "UUID-1"} \cup {UuidText(n) : n \in 0..MaxJobs}

\* job_id.strip()
Strip(s) == IF s = "   " THEN "" ELSE s

\* uuid.UUID(job_id): the parsed value, None for ValueError
ParseUuid(s) ==
    IF \E n \in 0..MaxJobs : s = UuidText(n) THEN Some(CHOOSE n \in 0..MaxJobs : s = UuidText(n))
    ELSE IF s = "UUID-1" THEN Some(1)
    ELSE None

\* the job whose record f"result:{job_id}" names: the key is built from the text as sent
KeyJob(s) == IF \E n \in Jobs : s = UuidText(n) THEN CHOOSE n \in Jobs : s = UuidText(n) ELSE 0

\* the progress message chosen from result.status
Progress(status) ==
    IF status = PENDING THEN "Waiting in queue..."
    ELSE IF status = PROCESSING
         THEN "Processing document... This may take several minutes for large PDFs."
    ELSE IF status = COMPLETED THEN "Processing complete!"
    ELSE "Processing failed"

\* JobStatusResponse built from result
StatusView(r) == [code |-> 200, job_id |-> r.job_id, filename |-> r.filename,
                  parser |-> r.parser, status |-> r.status, content |-> r.content,
                  summary |-> r.summary, error |-> r.error, progress |-> Progress(r.status)]

HttpError(code, detail) == [code |-> code, detail |-> detail]

\* the request arrives: validation of job_id, then start_time = datetime.now()
Q_Request(s) ==
    /\ qry.pc = "idle"
    /\ qry' = IF s = "" \/ Strip(s) = ""
              THEN [qry EXCEPT !.pc = "done", !.job_id = s,
                               !.answer = Some(HttpError(400, "Job ID is required"))]
              ELSE IF ParseUuid(s) = None
              THEN [qry EXCEPT !.pc = "done", !.job_id = s,
                               !.answer = Some(HttpError(400, "Invalid job ID format"))]
              ELSE [qry EXCEPT !.pc = "poll", !.job_id = s, !.elapsed = 0]
    /\ UNCHANGED <<kv, stream, group, prod, wk, writes, recv, calls, escaped, acks, boot, readfail, lost>>

\* get_job_status without the 404 branch: an absent record is polled again instead of answered with 404
Q_Poll_Mut ==
    /\ qry.pc = "poll"
    /\ qry.polls < MaxPolls
    /\ LET r == get_result(kv, KeyJob(qry.job_id))
           q == [qry EXCEPT !.polls = @ + 1, !.commands = @ + 1, !.result = r,
                            !.observed = @ \/ r # None]
       IN qry' = IF r # None /\ r[1].status \in {COMPLETED, FAILED}
                 THEN [q EXCEPT !.pc = "done", !.answer = Some(StatusView(r[1]))]
                 ELSE [q EXCEPT !.pc = "sleep"]
    /\ UNCHANGED <<kv, stream, group, prod, wk, writes, recv, calls, escaped, acks, boot, readfail, lost>>

\* inside while elapsed < timeout: result = redis_service.get_result(job_id);
\* a terminal record breaks out and is returned, a missing one raises 404
Q_Poll ==
    /\ qry.pc = "poll"
    /\ qry.polls < MaxPolls
    /\ LET r == get_result(kv, KeyJob(qry.job_id))
           q == [qry EXCEPT !.polls = @ + 1, !.commands = @ + 1, !.result = r,
                            !.observed = @ \/ r # None]
       IN qry' = IF r # None
                 THEN IF r[1].status \in {COMPLETED, FAILED}
                      THEN [q EXCEPT !.pc = "done", !.answer = Some(StatusView(r[1]))]
                      ELSE [q EXCEPT !.pc = "sleep"]
                 ELSE [q EXCEPT !.pc = "done", !.answer = Some(HttpError(404, "Job not found"))]
    /\ UNCHANGED <<kv, stream, group, prod, wk, writes, recv, calls, escaped, acks, boot, readfail, lost>>

\* the time asyncio.sleep(poll_interval) may take: the interval, or so long that the wait
\* is over (reached otherwise by timeout / poll_interval polls)
Delays == {poll_interval, timeout}

\* get_job_status treating the end of the wait as an error: it is answered with 408 whatever was read
Q_Sleep_Mut(d) ==
    /\ qry.pc = "sleep"
    /\ LET t == IF qry.elapsed + d >= timeout THEN timeout ELSE qry.elapsed + d
       IN qry' = IF t < timeout
                 THEN [qry EXCEPT !.elapsed = t, !.pc = "poll"]
                 ELSE [qry EXCEPT !.elapsed = t, !.pc = "done",
                                  !.answer = Some(HttpError(408, "Job processing timeout"))]
    /\ UNCHANGED <<kv, stream, group, prod, wk, writes, recv, calls, escaped, acks, boot, readfail, lost>>

\* await asyncio.sleep(poll_interval), then the loop condition; when the wait is over:
\* if not result: raise 408, otherwise the record of the last poll is returned
Q_Sleep(d) ==
    /\ qry.pc = "sleep"
    /\ LET t == IF qry.elapsed + d >= timeout THEN timeout ELSE qry.elapsed + d
       IN qry' = IF t < timeout
                 THEN [qry EXCEPT !.elapsed = t, !.pc = "poll"]
                 ELSE IF qry.result = None
                 THEN [qry EXCEPT !.elapsed = t, !.pc = "done",
                                  !.answer = Some(HttpError(408, "Job processing timeout"))]
                 ELSE [qry EXCEPT !.elapsed = t, !.pc = "done",
                                  !.answer = Some(StatusView(qry.result[1]))]
    /\ UNCHANGED <<kv, stream, group, prod, wk, writes, recv, calls, escaped, acks, boot, readfail, lost>>

\* ------------------------------------------------------------------- Next
AllKeys == {PdfKey(j) : j \in Jobs} \cup {ResultKey(j) : j \in Jobs}
Outcomes == {"ok", "timeout", "error"}

\* valid upload requests for the job ids JS whose parser is drawn from PS
ProducerOf(JS, PS) ==
    \/ \E j \in JS, fn \in Filenames, p \in PS : P_Upload(j, fn, 1, p)
    \/ \E j \in JS : P_SetPdf(j)
    \/ \E j \in JS : P_XAdd(j)
    \/ \E j \in JS : P_SaveResult(j)

Producer(PS) == ProducerOf(Jobs, PS)

\* the steps of the worker processes WS while Redis answers every command
WorkerSteps(WS) ==
    \/ \E w \in WS : W_Run(w)
    \/ \E w \in WS : W_Read(w)
    \/ \E w \in WS : W_GetResult(w)
    \/ \E w \in WS : W_SaveProcessing(w)
    \/ \E w \in WS : W_GetPdf(w)
    \/ \E w \in WS : \E o1 \in Outcomes, o2 \in Outcomes : W_Extract(w, o1, o2)
    \/ \E w \in WS : W_SaveCompleted(w)
    \/ \E w \in WS : W_Ack(w)
    \/ \E w \in WS : W_HGetResult(w)
    \/ \E w \in WS : W_SaveFailed(w)
    \/ \E w \in WS : W_HAck(w)

Consumer == WorkerSteps(Workers)

Shutdown ==
    \/ \E w \in Workers : HandleShutdown(w)
    \/ \E w \in Workers : W_Exit(w)

Faults ==
    \/ \E j \in Jobs : P_Fault(j)
    \/ \E w \in Workers : W_Fault(w)
    \/ \E w \in Workers : W_Sleep(w)

\* the program while Redis is available and no key expires: both parsers, shutdown signals
Next == Producer(Parsers) \/ Consumer \/ Shutdown

Spec == Init /\ [][Next]_vars

\* the program while any Redis command may raise
NextFault == Producer({"pypdf"}) \/ Consumer \/ Faults

SpecFault == Init /\ [][NextFault]_vars

\* the program while any key may expire or be deleted
NextExpire == Producer({"pypdf"}) \/ Consumer \/ \E k \in AllKeys : Expire(k)

SpecExpire == Init /\ [][NextExpire]_vars

\* one worker while any Redis command may raise and shutdown signals arrive
NextFaultStop ==
    \/ Producer({"pypdf"})
    \/ WorkerSteps({1})
    \/ \E j \in Jobs : P_Fault(j)
    \/ W_Fault(1)
    \/ W_Sleep(1)
    \/ HandleShutdown(1)
    \/ W_Exit(1)

SpecFaultStop == Init /\ [][NextFaultStop]_vars

\* the program while any Redis command may raise, the blocking read included
NextReadFault == NextFault \/ \E w \in Workers : W_ReadFault(w)

SpecReadFault == Init /\ [][NextReadFault]_vars

\* the program while the reply to the acknowledgment of the try block may be lost
NextAck == Producer({"pypdf"}) \/ Consumer \/ \E w \in Workers : W_AckLost(w)

SpecAck == Init /\ [][NextAck]_vars

\* the program while further processes construct their RedisService
NextBoot == Producer({"pypdf"}) \/ Consumer \/ \E reply \in CreateReplies : Construct(reply)

SpecBoot == Init /\ [][NextBoot]_vars

\* the program while Redis is available, no key expires and no worker is stopped; every
\* worker that can take a step eventually takes one, and so does the producer
NextLive == Producer(Parsers) \/ Consumer

Fairness ==
    /\ WF_vars(Producer(Parsers))
    /\ \A w \in Workers : WF_vars(WorkerSteps({w}))

SpecLive == Init /\ [][NextLive]_vars /\ Fairness

\* two workers that are killed and started again while status records expire
NextCrash ==
    \/ Producer({"pypdf"})
    \/ WorkerSteps({1, 2})
    \/ \E w \in {1, 2} : W_Crash(w)
    \/ \E w \in {1, 2} : W_Restart(w)
    \/ \E j \in Jobs : Expire(ResultKey(j))

SpecCrash == Init /\ [][NextCrash]_vars

\* several uploads in a row served by two workers while Redis answers every command
NextOrder == ProducerOf(AllJobs, {"pypdf"}) \/ WorkerSteps({1, 2})

SpecOrder == Init /\ [][NextOrder]_vars

\* upload requests of every kind, well-formed or not
Uploads == \E j \in Jobs, fn \in UploadNames, n \in UploadSizes : P_Upload(j, fn, n, "pypdf")

Query ==
    \/ \E s \in JobIdTexts : Q_Request(s)
    \/ Q_Poll
    \/ \E d \in Delays : Q_Sleep(d)

\* the request handlers alone: uploads and a status request of every kind
NextValidate ==
    \/ Uploads
    \/ \E j \in Jobs : P_SetPdf(j)
    \/ \E j \in Jobs : P_XAdd(j)
    \/ \E j \in Jobs : P_SaveResult(j)
    \/ Query

SpecValidate == Init /\ [][NextValidate]_vars

\* a status request in flight while one worker serves the queue and status records expire
NextQuery ==
    \/ Producer({"pypdf"})
    \/ WorkerSteps({1})
    \/ Query
    \/ \E j \in Jobs : Expire(ResultKey(j))

SpecQuery == Init /\ [][NextQuery]_vars

\* ------------------------------------------------------------ observations
Terminal == {COMPLETED, FAILED}

\* a status record is stored for job j
Stored(j) == ResultKey(j) \in DOMAIN kv

\* the stored record of job j as get_result returns it
Record(j) == Load(kv[ResultKey(j)].value)

\* entry i was delivered and has left the group's pending entries list
Acked(i) == i <= group.last_delivered /\ i \notin DOMAIN group.pel

\* worker w received entry i from read_from_stream
Received(w, i) == \E k \in DOMAIN recv[i] : recv[i][k] = w

\* worker w is inside process_message for entry i
Holding(w, i) == wk[w].message_id = i

\* the positions of the terminal writes in the write history of job j
TerminalWrites(j) == {k \in DOMAIN writes[j] : writes[j][k] \in Terminal}

Backward(a, b) ==
    \/ a \in {PROCESSING, COMPLETED, FAILED} /\ b = PENDING
    \/ a \in Terminal /\ b = PROCESSING

\* ------------------------------------------------------------------ claims

\* C1: the stored status of a job only moves forward along pending -> processing ->
\* {completed | failed}: no write takes it from processing, completed or failed back to
\* pending, nor from completed or failed to processing.
C1_ForwardOnly ==
    [][\A j \in Jobs : (Stored(j) /\ Stored(j)') =>
            ~Backward(Record(j).status, Record(j)'.status)]_vars

\* C2: in every reachable state every stored record has content and summary only when
\* completed, error only when failed, and a terminal record has exactly one of
\* {content and summary, error}.
C2_FieldsMatchStatus ==
    \A j \in Jobs : Stored(j) =>
        LET r == Record(j)
            hasText == r.content # None /\ r.summary # None
        IN  /\ (r.content # None \/ r.summary # None) => r.status = COMPLETED
            /\ r.error # None => r.status = FAILED
            /\ r.status \in Terminal => (hasText /\ r.error = None) \/ (~hasText /\ r.error # None)

\* C3: once a terminal status has been written for a job nothing is written for the job
\* again, so the status stays and exactly one write sets completed_at.
C3_TerminalIsFinal ==
    \A j \in Jobs : \A k \in DOMAIN writes[j] :
        writes[j][k] \in Terminal => k = Len(writes[j])

\* C4: for a job whose extraction succeeded the statuses stored over time are exactly
\* pending, processing, completed, in that order.
C4_PendingProcessingCompleted ==
    \A j \in Jobs :
        (\E k \in DOMAIN writes[j] : writes[j][k] = COMPLETED) =>
            writes[j] = <<PENDING, PROCESSING, COMPLETED>>

\* C5: the step that makes a submission accepted (the producer's last step) leaves a status
\* record for the job in the store with status pending.
C5_PendingAfterSubmit ==
    [][\A j \in Jobs : (prod[j].pc # "accepted" /\ prod'[j].pc = "accepted") =>
            (Stored(j)' /\ Record(j)'.status = PENDING)]_vars

\* C5 witness: an accepted submission whose record is stored as pending
C5_Witness ==
    \E j \in Jobs : prod[j].pc = "accepted" /\ Stored(j) /\ Record(j).status = PENDING

\* C6: every entry is received by at most one process_message invocation and no job gets
\* more than one terminal write.
C6_ExactlyOnce ==
    \A i \in 1..Len(stream) :
        /\ Len(recv[i]) <= 1
        /\ Cardinality(TerminalWrites(stream[i].job_id)) <= 1

\* C7: an acknowledged entry has a terminal status write for its job before it.
C7_TerminalBeforeAck ==
    \A i \in 1..Len(stream) : Acked(i) => TerminalWrites(stream[i].job_id) # {}

C9_MissingPayloadFails ==
    \A i \in 1..Len(stream) :
        LET j == stream[i].job_id IN
        (calls[j].missing > 0 /\ Settled(j)) =>
            /\ writes[j] # <<>> /\ writes[j][Len(writes[j])] = FAILED
            /\ Stored(j) => Record(j).error = Some(ErrPdfNotFound)
            /\ calls[j].extract = 0
            /\ Acked(i)
            /\ \A w \in Workers : Received(w, i) => wk[w].pc = "loop" /\ wk[w].running

\* C10: whenever an entry is in the stream, the payload and the status record of its job
\* have already been written.
C10_RecordBeforeEntry ==
    \A i \in 1..Len(stream) :
        LET j == stream[i].job_id IN
        /\ prod[j].pc \notin {"idle", "set_pdf"}
        /\ writes[j] # <<>>

\* the job a status request asks about, 0 when its key names no job
Asked == KeyJob(qry.job_id)

\* the answer of the status request
Answer == qry.answer[1]

\* C11: a poll of a well-formed job id that finds no status record answers 404 in that
\* very step, before the wait has run out, whether the record never existed or has expired.
C11_AbsentIsNotFound ==
    [][(qry.pc = "poll" /\ qry'.polls = qry.polls + 1 /\ ~Stored(Asked)) =>
          /\ qry'.pc = "done"
          /\ qry'.answer = Some(HttpError(404, "Job not found"))
          /\ qry'.elapsed = qry.elapsed /\ qry'.elapsed < timeout]_vars

\* a request that saw the record at its first poll and found it expired at the second
C11_Witness ==
    qry.pc = "done" /\ qry.observed /\ qry.polls = 2 /\ Answer.code = 404

\* C12: when the wait runs out while the stored record is pending or processing, the
\* request is answered with a status view whose status is the stored one at that moment.
C12_TimeoutViewIsCurrent ==
    [][(/\ qry.pc = "sleep" /\ qry'.pc = "done"
        /\ Stored(Asked) /\ Record(Asked).status \in {PENDING, PROCESSING}) =>
          /\ qry'.answer[1].code = 200
          /\ qry'.answer[1].status = Record(Asked).status]_vars

\* C13: a finished request that answered 408 observed no record at any poll, and one that
\* observed a record at some poll answered with a status view or with 404.
C13_TimeoutOnlyUnobserved ==
    qry.pc = "done" =>
        /\ Answer.code = 408 => ~qry.observed
        /\ qry.observed => Answer.code \in {200, 404}

\* a request whose wait ran out after it had observed a record
C13_Witness ==
    qry.pc = "done" /\ qry.observed /\ qry.elapsed >= timeout /\ Answer.code = 200

\* C14: an upload with no file name, a name not ending in .pdf, no bytes or more than
\* 10 MB, and a status request with an empty, blank or non-UUID job id, are answered 400
\* having issued no Redis command; no key and no stream entry exists for such an upload.
C14_RejectedTouchesNothing ==
    /\ \A j \in Jobs :
        (/\ prod[j].pc # "idle"
         /\ \/ prod[j].filename \in {"", "notes.txt"}
            \/ prod[j].size = 0
            \/ prod[j].size > 10485760) =>
            /\ prod[j].pc = "rejected"
            /\ prod[j].commands = 0
            /\ PdfKey(j) \notin DOMAIN kv /\ ResultKey(j) \notin DOMAIN kv
            /\ EntriesOf(j) = {}
    /\ (qry.pc # "idle" /\ qry.job_id \in {"", "   ", "not-a-uuid"}) =>
            /\ qry.pc = "done"
            /\ Answer.code = 400
            /\ qry.commands = 0

\* an oversized upload and a malformed status request have both been answered
C14_Witness ==
    /\ \E j \in Jobs : prod[j].pc = "rejected" /\ prod[j].size > 10485760
    /\ qry.pc = "done" /\ qry.job_id = "not-a-uuid"

\* C15: a worker whose stop flag is down and that is at the loop head reads no more, and
\* a worker that has exited leaves no entry it received without an acknowledgment and a
\* terminal status write.
C15_StopFinishesIteration ==
    [][\A w \in Workers :
          /\ (wk[w].pc = "loop" /\ ~wk[w].running) => wk'[w].pc \in {"loop", "exited"}
          /\ wk'[w].pc = "exited" =>
                \A i \in 1..Len(stream) :
                    Received(w, i) => Acked(i) /\ TerminalWrites(stream[i].job_id) # {}]_vars

\* C16: a worker leaves its loop only from the loop head with the stop flag down; a step
\* in which a Redis command raises neither ends the worker nor clears its flag.
C16_ErrorsDoNotStopWorker ==
    [][\A w \in Workers :
          /\ (wk[w].pc # "exited" /\ wk'[w].pc = "exited") =>
                wk[w].pc = "loop" /\ ~wk[w].running
          /\ ((wk[w].e = None /\ wk'[w].e # None) \/ (escaped' # escaped /\ wk[w].message_id # 0)) =>
                wk'[w].pc \in {"h_get", "sleep"} /\ wk'[w].running = wk[w].running]_vars

\* a worker that let an error escape from process_message, went on, and left on the flag
C16_Witness ==
    \E w \in Workers : \E i \in escaped : Received(w, i) /\ wk[w].pc = "exited"

\* C17: no worker has two failed reads in a row without a sleep in between.
C17_BackoffAfterFailedRead ==
    \A w \in Workers : readfail[w] <= 1

C19_GroupCreateIdempotent ==
    [][boot' # boot =>
          /\ stream' = stream
          /\ group' = group
          /\ boot'.outcome = "ready" <=>
                boot'.reply = Some([type |-> "ResponseError",
                                    text |-> "BUSYGROUP Consumer Group name already exists"])]_vars

\* a construction that ran into BUSYGROUP while the group had pending entries
C19_Witness ==
    /\ boot.reply # None /\ boot.outcome = "ready"
    /\ boot.at > 0 /\ group.last_delivered = boot.at /\ DOMAIN group.pel # {}

\* C20 as stated: payloads live under payload:<job_id>, status records under
\* status:<job_id>, every key with a time-to-live of 3600 seconds, and each entry's
\* payload key is the payload:<job_id> key of its job.
C20_KeysAsStated ==
    /\ \A k \in DOMAIN kv :
          /\ kv[k].ex = 3600
          /\ \E j \in Jobs : k = <<"payload", j>> \/ k = <<"status", j>>
    /\ \A i \in 1..Len(stream) : stream[i].pdf_key = <<"payload", stream[i].job_id>>

\* C20 amended: payloads live under pdf:<job_id>, status records under result:<job_id>
\* and carry that job_id, every key with a time-to-live of 3600 seconds, and each
\* entry's pdf_key is the pdf:<job_id> key of its job.
C20_KeysAsCoded ==
    /\ \A k \in DOMAIN kv :
          /\ kv[k].ex = 3600
          /\ \E j \in Jobs : \/ k = <<"pdf", j>> /\ kv[k].value = PdfBytes(j)
                             \/ k = <<"result", j>> /\ kv[k].value.job_id = j
    /\ \A i \in 1..Len(stream) : stream[i].pdf_key = <<"pdf", stream[i].job_id>>

\* a job with its payload, its entry and a status record rewritten by the worker
C20_Witness ==
    \E j \in Jobs : /\ PdfKey(j) \in DOMAIN kv /\ Stored(j)
                    /\ EntriesOf(j) # {} /\ Len(writes[j]) >= 2

\* C21: when an extractor call of a job failed or timed out and the job is settled, a
\* status record is stored with status failed and a non-empty error, completed was never
\* written for the job, and the entry is acknowledged.
C21_ExtractionFailureFails ==
    \A i \in 1..Len(stream) :
        LET j == stream[i].job_id IN
        (calls[j].failed > 0 /\ Settled(j)) =>
            /\ Stored(j)
            /\ Record(j).status = FAILED
            /\ Record(j).error # None /\ Record(j).error # Some("")
            /\ \A k \in DOMAIN writes[j] : writes[j][k] # COMPLETED
            /\ Acked(i)

\* C22: every step in which a worker writes the status record of a job (processing,
\* completed or failed) leaves a record whose job_id, filename, parser and created_at are
\* those of the pending record the producer creates for the job.
C22_WorkerWritesKeepIdentity ==
    [][\A j \in Jobs :
          (/\ Len(writes'[j]) > Len(writes[j])
           /\ writes'[j][Len(writes'[j])] # PENDING) =>
             LET new == Load(kv'[ResultKey(j)].value)
                 first == PendingResult(j, prod[j].filename, prod[j].parser, Instant("created", j))
             IN  /\ new.job_id = first.job_id
                 /\ new.filename = first.filename
                 /\ new.parser = first.parser
                 /\ new.created_at = first.created_at]_vars

\* C23: in the step in which a worker receives an entry, every entry appended before it
\* has already been delivered to some worker, and the worker has received no entry
\* appended after it.
C23_AppendOrder ==
    [][\A i \in 1..Len(stream) :
          recv'[i] # recv[i] =>
             /\ \A k \in 1..(i - 1) : recv[k] # <<>>
             /\ \A k \in (i + 1)..Len(stream) :
                   ~Received(recv'[i][Len(recv'[i])], k)]_vars

\* one worker has received two entries
C23_Witness ==
    \E w \in Workers : \E i, k \in 1..Len(stream) : i < k /\ Received(w, i) /\ Received(w, k)

\* C24: once the request of a job is accepted, the job's status record eventually has
\* status completed or failed.
C24_EventuallyTerminal ==
    \A j \in Jobs :
        (prod[j].pc = "accepted") ~> (Stored(j) /\ Record(j).status \in Terminal)

\* C25: no entry is delivered twice; an entry whose worker was killed before any terminal
\* status was written for its job stays delivered once, stays in the pending list, and the
\* status record of its job, while stored, is non-terminal.
C25_AtMostOnce ==
    /\ \A i \in 1..Len(stream) : Len(recv[i]) <= 1
    /\ \A i \in lost :
          /\ Len(recv[i]) = 1
          /\ i \in DOMAIN group.pel
          /\ \A k \in DOMAIN writes[stream[i].job_id] :
                writes[stream[i].job_id][k] \notin Terminal
          /\ Stored(stream[i].job_id) => Record(stream[i].job_id).status \notin Terminal

\* a worker was killed holding an entry, was started again and is reading, with nothing
\* left to deliver
C25_Witness ==
    \E i \in lost : \E w \in Workers :
        /\ Received(w, i) /\ wk[w].pc = "loop" /\ wk[w].running
        /\ group.last_delivered = Len(stream)
        /\ Stored(stream[i].job_id) /\ Record(stream[i].job_id).status = PROCESSING

\* C26: when add_job_to_queue raised and the upload was answered with an error, the stream
\* holds no entry for the job and no status record was ever written for it.
C26_RejectedLeavesNothing ==
    \A j \in Jobs :
        prod[j].pc = "error" =>
            /\ EntriesOf(j) = {}
            /\ writes[j] = <<>>

====
